---- MODULE Spec2Model ----
(***************************************************************************)
(* Model of src/app.py: the Profile Analysis Dashboard script.             *)
(*                                                                         *)
(* A Python string is a sequence of one-character TLA+ strings; the fixed  *)
(* literals of the script ("https://github.com/", the error messages) are  *)
(* single tokens of such a sequence, so an f-string is a concatenation.    *)
(* A spreadsheet cell is a record [kind, s]: kind "str" with its text s,   *)
(* "num" (a numeric cell, s its decimal text), "absent" (None/NaN) or      *)
(* "bad" (an object whose truth value cannot be taken).                    *)
(***************************************************************************)
EXTENDS Integers, Sequences, FiniteSets, TLC

VARIABLES df, web, i, pc, results, errors, gets, answers, summary, csv

vars == <<df, web, i, pc, results, errors, gets, answers, summary, csv>>

(***************************************************************************)
(* Bounds.                                                                 *)
(***************************************************************************)
MaxLen == 5

MaxRows == 3

MaxItems == 2

(***************************************************************************)
(* Characters.                                                             *)
(***************************************************************************)
NonAscii == "U+00E9"

LowerLetters == {"n", "o", "e", "r"}

UpperLetters == {"N"}

Digits == {"7", "0"}

Whitespace == {" "}

Alphabet == {"n", "o", "e", "N", "7", "-", " ", NonAscii}

\* str.lower() on one character.
LowerChar(c) == IF c = "N" THEN "n" ELSE c

\* str.lower()
Lower(s) == [k \in 1..Len(s) |-> LowerChar(s[k])]

RECURSIVE LStrip(_)
LStrip(s) == IF s # <<>> /\ Head(s) \in Whitespace THEN LStrip(Tail(s)) ELSE s

RECURSIVE RStrip(_)
RStrip(s) ==
    IF s # <<>> /\ s[Len(s)] \in Whitespace
    THEN RStrip(SubSeq(s, 1, Len(s) - 1))
    ELSE s

\* A mutant of Strip: leading whitespace only.
StripLeftOnly(s) == LStrip(s)

\* str.strip()
Strip(s) == RStrip(LStrip(s))

(***************************************************************************)
(* Cells of the "GitHub ID" column.                                        *)
(***************************************************************************)
Strings(n) == UNION {[1..k -> Alphabet] : k \in 0..n}

StrCell(s) == [kind |-> "str", s |-> s]

NumCell(s) == [kind |-> "num", s |-> s]

AbsentCell == [kind |-> "absent", s |-> <<>>]

BadCell == [kind |-> "bad", s |-> <<>>]

none == <<"n", "o", "n", "e">>

\* bool(github_id) raises: the truth value of the object cannot be taken.
TruthRaises(cell) == cell.kind = "bad"

\* not github_id
Falsy(cell) ==
    \/ cell.kind = "absent"
    \/ cell.kind = "str" /\ cell.s = <<>>
    \/ cell.kind = "num" /\ cell.s = <<"0">>

\* A mutant of IsMissing: the comparison with "none" without lower().
IsMissingCaseSensitive(cell) ==
    \/ Falsy(cell)
    \/ cell.kind = "absent"
    \/ Strip(cell.s) = none
    \/ Strip(cell.s) = <<>>

\* The condition of line 22.
IsMissing(cell) ==
    \/ Falsy(cell)
    \/ cell.kind = "absent"
    \/ Lower(Strip(cell.s)) = none
    \/ Strip(cell.s) = <<>>

PatternClass == LowerLetters \cup UpperLetters \cup Digits \cup {"-"}

\* A mutant of MatchesPattern: re.search semantics without the anchors.
MatchesAnywhere(s) == \E k \in 1..Len(s) : s[k] \in PatternClass

\* re.match(r'^[a-zA-Z0-9\-]+$', s).  "$" also admits one trailing newline,
\* which no stripped string has.
MatchesPattern(s) == s # <<>> /\ \A k \in 1..Len(s) : s[k] \in PatternClass

\* f"https://github.com/{github_id}?tab=repositories"
Url(id) == <<"https://github.com/">> \o id \o <<"?tab=repositories">>

(***************************************************************************)
(* Results of scrape_github.  A success has no "error" key.                *)
(***************************************************************************)
MissingMsg == <<"No GitHub ID provided">>

InvalidMsg == <<"Invalid GitHub ID format">>

NoReposMsg == <<"No repositories found">>

ProcessingMsg == <<"Processing error">>

ErrorResult(msg) == [error |-> msg, count |-> 0, repos |-> <<>>]

SuccessResult(repo_data) == [repos |-> repo_data, count |-> Len(repo_data)]

\* r.get("error"), as a truth value.
HasError(r) == "error" \in DOMAIN r /\ r.error # <<>>

\* needle in message
Contains(msg, needle) ==
    \E k \in 1..(Len(msg) - Len(needle) + 1) :
        SubSeq(msg, k, k + Len(needle) - 1) = needle

\* The value github_id.strip() of line 25 for a cell that has the method.
TrimmedId(cell) == Strip(cell.s)

\* What scrape_github does before any request: "missing" and "invalid" are
\* the returns of lines 23 and 27, "attr_error" is line 25 raising on a
\* cell that is no string (caught at line 56), "request" reaches line 33.
Validation(cell) ==
    IF IsMissing(cell) THEN "missing"
    ELSE IF cell.kind # "str" THEN "attr_error"
    ELSE IF ~MatchesPattern(TrimmedId(cell)) THEN "invalid"
    ELSE "request"

\* The result scrape_github returns without a request.
EarlyResult(cell) ==
    CASE Validation(cell) = "missing" -> ErrorResult(MissingMsg)
      [] Validation(cell) = "invalid" -> ErrorResult(InvalidMsg)
      [] Validation(cell) = "attr_error" ->
            ErrorResult(<<"Scraping error: ", "AttributeError">>)

(***************************************************************************)
(* What the remote server may answer to a GET.  kind "conn_error" is       *)
(* requests.get raising a RequestException, "http_error" is                *)
(* raise_for_status raising HTTPError (a RequestException), "parse_error"  *)
(* is any other exception in lines 36-53, "page" is a parsed document with *)
(* or without the div#user-repositories-list and with its li elements in   *)
(* document order.  A field of an li is <<>> when its element is absent    *)
(* and <<text>> otherwise.                                                 *)
(***************************************************************************)
Unknown == <<"U", "n", "k", "n", "o", "w", "n">>

Failure(kind, cause) ==
    [kind |-> kind, cause |-> cause, container |-> FALSE, items |-> <<>>]

Page(container, items) ==
    [kind |-> "page", cause |-> "", container |-> container, items |-> items]

NameTexts == {<<>>, <<<<"r">>>>, <<<<" ", "r", " ">>>>, <<Unknown>>}

LanguageTexts == {<<>>, <<<<"p", "y">>>>}

DescriptionTexts == {<<>>, <<<<"d", " ">>>>}

SourceItems ==
    [source : {TRUE}, name : NameTexts, language : LanguageTexts,
     description : DescriptionTexts]

ForkItem ==
    [source |-> FALSE, name |-> <<<<"r">>>>, language |-> <<>>,
     description |-> <<>>]

Items == SourceItems \cup {ForkItem}

ItemLists(n) == UNION {[1..k -> Items] : k \in 0..n}

Failures ==
    {Failure("conn_error", "ConnectTimeout"),
     Failure("http_error", "404 Client Error"),
     Failure("parse_error", "ParserError")}

AllResponses ==
    Failures \cup {Page(FALSE, <<>>)}
             \cup {Page(TRUE, items) : items \in ItemLists(MaxItems)}

TwoRepos ==
    <<[source |-> TRUE, name |-> <<<<"r">>>>, language |-> <<<<"p", "y">>>>,
       description |-> <<>>],
      [source |-> TRUE, name |-> <<<<"r">>>>, language |-> <<>>,
       description |-> <<>>]>>

ProbeResponses ==
    Failures \cup {Page(FALSE, <<>>), Page(TRUE, <<>>), Page(TRUE, TwoRepos)}

\* The answers a server of class w may give: web is the class of the server
\* the run talks to.
Responses(w) ==
    CASE w = "any" -> AllResponses
      [] w = "probe" -> ProbeResponses
      [] w = "plain" ->
            {Failure("conn_error", "ConnectTimeout"), Page(TRUE, <<>>)}

\* A mutant of RepoRecord: the link is built whatever the name.
RepoRecordAlwaysLinked(id, item) ==
    LET name == IF item.name # <<>> THEN Strip(item.name[1]) ELSE Unknown
    IN  [name |-> name,
         link |-> <<"https://github.com/">> \o id \o <<"/">> \o name,
         language |-> IF item.language # <<>>
                      THEN Strip(item.language[1]) ELSE Unknown,
         description |-> IF item.description # <<>>
                         THEN Strip(item.description[1]) ELSE <<>>]

\* Lines 44-51: the record of one li.source.
RepoRecord(id, item) ==
    LET name == IF item.name # <<>> THEN Strip(item.name[1]) ELSE Unknown
    IN  [name |-> name,
         link |-> IF name # Unknown
                  THEN <<"https://github.com/">> \o id \o <<"/">> \o name
                  ELSE <<>>,
         language |-> IF item.language # <<>>
                      THEN Strip(item.language[1]) ELSE Unknown,
         description |-> IF item.description # <<>>
                         THEN Strip(item.description[1]) ELSE <<>>]

IsSource(item) == item.source

\* Lines 41-51: repo_list.find_all("li", class_="source") and the loop.
RECURSIVE Extract(_, _)
Extract(id, items) ==
    IF items = <<>> THEN <<>>
    ELSE IF IsSource(Head(items))
         THEN <<RepoRecord(id, Head(items))>> \o Extract(id, Tail(items))
         ELSE Extract(id, Tail(items))

\* A mutant of ParseResponse: an empty repository list is reported as
\* "No repositories found".
ParseResponseEmptyIsError(id, resp) ==
    IF resp.kind \in {"conn_error", "http_error"}
    THEN ErrorResult(<<"Network error: ", resp.cause>>)
    ELSE IF resp.kind = "parse_error"
    THEN ErrorResult(<<"Scraping error: ", resp.cause>>)
    ELSE IF ~resp.container \/ Extract(id, resp.items) = <<>>
    THEN ErrorResult(NoReposMsg)
    ELSE SuccessResult(Extract(id, resp.items))

\* Lines 33-57: the result of scrape_github once the GET has been answered.
ParseResponse(id, resp) ==
    IF resp.kind \in {"conn_error", "http_error"}
    THEN ErrorResult(<<"Network error: ", resp.cause>>)
    ELSE IF resp.kind = "parse_error"
    THEN ErrorResult(<<"Scraping error: ", resp.cause>>)
    ELSE IF ~resp.container
    THEN ErrorResult(NoReposMsg)
    ELSE SuccessResult(Extract(id, resp.items))

(***************************************************************************)
(* The script from line 100 on.  i counts the rows the loop has finished,  *)
(* so the row at hand is df[i + 1] (the script's "Row {i+1}").  gets is    *)
(* the trace of the requests.get calls (the row that made each and its     *)
(* url) and answers the trace of what each call got, in the same order.    *)
(***************************************************************************)
Row == df[i + 1]

\* Lines 110-115 and 121: the loop body after process_row has returned.
LoopBody(github_result) ==
    /\ errors' =
         IF HasError(github_result) /\ Contains(github_result.error, MissingMsg)
         THEN Append(errors, [row |-> i + 1, text |-> MissingMsg])
         ELSE IF HasError(github_result)
                 /\ Contains(github_result.error, InvalidMsg)
         THEN Append(errors, [row |-> i + 1,
                              text |-> <<"Invalid GitHub ID format - ">>
                                          \o Row.s])
         ELSE errors
    /\ results' = Append(results, [github |-> github_result])
    /\ i' = i + 1

\* A mutant of ProcessRowRaises: the exception leaves the loop.
ProcessRowRaisesAborts ==
    /\ pc = "loop"
    /\ i < Len(df)
    /\ TruthRaises(Row)
    /\ errors' = Append(errors, [row |-> i + 1,
                                 text |-> <<"Processing error - ", "ValueError">>])
    /\ i' = Len(df)
    /\ UNCHANGED <<df, web, pc, results, gets, answers, summary, csv>>

\* Lines 109 and 116-121: process_row raises (the truth test of line 22
\* is outside scrape_github's try) and the loop records a processing error.
ProcessRowRaises ==
    /\ pc = "loop"
    /\ i < Len(df)
    /\ TruthRaises(Row)
    /\ errors' = Append(errors, [row |-> i + 1,
                                 text |-> <<"Processing error - ", "ValueError">>])
    /\ results' = Append(results, [github |-> ErrorResult(ProcessingMsg)])
    /\ i' = i + 1
    /\ UNCHANGED <<df, web, pc, gets, answers, summary, csv>>

\* Lines 106-115 and 121 for a row scrape_github answers without a request.
ScrapeWithoutRequest ==
    /\ pc = "loop"
    /\ i < Len(df)
    /\ ~TruthRaises(Row)
    /\ Validation(Row) # "request"
    /\ LoopBody(EarlyResult(Row))
    /\ UNCHANGED <<df, web, pc, gets, answers, summary, csv>>

\* Lines 106-109 and 22-33: the row passes validation and requests.get is
\* called; the script blocks until the answer.
SendGet ==
    /\ pc = "loop"
    /\ i < Len(df)
    /\ ~TruthRaises(Row)
    /\ Validation(Row) = "request"
    /\ gets' = Append(gets, [row |-> i + 1, url |-> Url(TrimmedId(Row))])
    /\ pc' = "get"
    /\ UNCHANGED <<df, web, i, results, errors, answers, summary, csv>>

\* A mutant of ReceiveResponse: a failed request is issued once more.
ReceiveResponseRetrying ==
    /\ pc = "get"
    /\ \E resp \in Responses(web) :
          /\ answers' = Append(answers, resp)
          /\ IF resp.kind = "conn_error" /\ Len(gets) < 2 * Len(df)
             THEN /\ gets' = Append(gets, gets[Len(gets)])
                  /\ UNCHANGED <<i, results, errors, pc>>
             ELSE /\ LoopBody(ParseResponse(TrimmedId(Row), resp))
                  /\ pc' = "loop"
                  /\ UNCHANGED gets
    /\ UNCHANGED <<df, web, summary, csv>>

\* Lines 33-57, 110-115 and 121: the GET is answered, scrape_github returns
\* and the loop records the result.
ReceiveResponse ==
    /\ pc = "get"
    /\ \E resp \in Responses(web) :
          /\ answers' = Append(answers, resp)
          /\ LoopBody(ParseResponse(TrimmedId(Row), resp))
    /\ pc' = "loop"
    /\ UNCHANGED <<df, web, gets, summary, csv>>

RECURSIVE SumCounts(_)
SumCounts(rs) ==
    IF rs = <<>> THEN 0
    ELSE (IF HasError(Head(rs).github) THEN 0 ELSE Head(rs).github.count)
         + SumCounts(Tail(rs))

\* Line 128: sum(1 for r in results if not r["github"].get("error")).
ValidGitHub(rs) == Cardinality({k \in 1..Len(rs) : ~HasError(rs[k].github)})

\* Line 132, in hundredths: round(np.mean(counts or [0]), 2).  No mean of
\* at most MaxRows + 1 counts falls half way between two hundredths.
AverageRepos(rs) ==
    IF ValidGitHub(rs) = 0 THEN 0
    ELSE (200 * SumCounts(rs) + ValidGitHub(rs)) \div (2 * ValidGitHub(rs))

\* Lines 126-137: the Summary tab.
Summary ==
    /\ pc = "loop"
    /\ i = Len(df)
    /\ summary' = [total_users |-> Len(df),
                   valid_github_ids |-> ValidGitHub(results),
                   average_github_repos |-> AverageRepos(results),
                   view_errors |-> errors]
    /\ pc' = "tabs"
    /\ UNCHANGED <<df, web, i, results, errors, gets, answers, csv>>

\* row["GitHub ID"] or "None"
IdOrNone(cell) == IF Falsy(cell) THEN <<"None">> ELSE cell.s

\* A mutant of ReposValue: the count column is left empty for an error row.
ReposValueCountOnly(github_result) ==
    IF ~HasError(github_result)
    THEN <<ToString(github_result.count)>>
    ELSE <<>>

\* Line 165 and to_csv: the "GitHub Repos" field, as text.
ReposValue(github_result) ==
    IF ~HasError(github_result)
    THEN <<ToString(github_result.count)>>
    ELSE github_result.error

\* Lines 140-170: the GitHub tab and the CSV.  The truth test of
\* row['GitHub ID'] at line 143 raises on a cell that has none, and the
\* script ends there.
RenderAndExport ==
    /\ pc = "tabs"
    /\ IF \E k \in 1..Len(df) : TruthRaises(df[k])
       THEN /\ pc' = "crashed"
            /\ csv' = csv
       ELSE /\ pc' = "done"
            /\ csv' = [k \in 1..Len(df) |->
                         [github_id |-> IdOrNone(df[k]),
                          github_repos |-> ReposValue(results[k].github)]]
    /\ UNCHANGED <<df, web, i, results, errors, gets, answers, summary>>

Next ==
    \/ ProcessRowRaises
    \/ ScrapeWithoutRequest
    \/ SendGet
    \/ ReceiveResponse
    \/ Summary
    \/ RenderAndExport

\* Lines 100-103: the state before the loop.
Start ==
    /\ i = 0
    /\ pc = "loop"
    /\ results = <<>>
    /\ errors = <<>>
    /\ gets = <<>>
    /\ answers = <<>>
    /\ summary = [total_users |-> 0, valid_github_ids |-> 0,
                  average_github_repos |-> 0, view_errors |-> <<>>]
    /\ csv = <<>>

(***************************************************************************)
(* Spec: a whole run over a table of at most MaxRows rows.  After          *)
(* fillna("") no cell is absent.                                           *)
(***************************************************************************)
ValidId == <<" ", "n", "-", "7", " ">>

RowCells ==
    {StrCell(<<>>), StrCell(<<"N", "o", "n", "e">>),
     StrCell(<<"n", " ", "7">>), StrCell(ValidId),
     NumCell(<<"7">>), BadCell}

Tables(cells, n) == UNION {[1..k -> cells] : k \in 0..n}

Init ==
    /\ df \in Tables(RowCells, MaxRows)
    /\ web = "probe"
    /\ Start

Spec == Init /\ [][Next]_vars

(***************************************************************************)
(* SpecValidate: one row, its cell any string of at most MaxLen            *)
(* characters or a cell that is no string.                                 *)
(***************************************************************************)
AllCells ==
    {StrCell(s) : s \in Strings(MaxLen)}
        \cup {AbsentCell, BadCell, NumCell(<<"7">>), NumCell(<<"0">>)}

InitValidate ==
    /\ df \in {<<cell>> : cell \in AllCells}
    /\ web = "plain"
    /\ Start

SpecValidate == InitValidate /\ [][Next]_vars

(***************************************************************************)
(* SpecScrape: one row, any answer of the server with at most MaxItems li  *)
(* elements.                                                               *)
(***************************************************************************)
ScrapeCells == {StrCell(ValidId), StrCell(<<"N">>), StrCell(<<>>), BadCell}

InitScrape ==
    /\ df \in {<<cell>> : cell \in ScrapeCells}
    /\ web = "any"
    /\ Start

SpecScrape == InitScrape /\ [][Next]_vars

(***************************************************************************)
(* The vocabulary of the properties, stated without the operators above.   *)
(***************************************************************************)
IdChars == {"n", "o", "e", "N", "7", "0", "-"}

\* s without its leading and trailing whitespace.
Trimmed(s) ==
    LET inked == {k \in 1..Len(s) : s[k] # " "}
    IN  IF inked = {} THEN <<>>
        ELSE LET first == CHOOSE k \in inked : \A m \in 1..(k - 1) : s[m] = " "
                 last == CHOOSE k \in inked :
                             \A m \in (k + 1)..Len(s) : s[m] = " "
             IN  SubSeq(s, first, last)

\* s is "none" in any letter case.
IsNoneWord(s) ==
    /\ Len(s) = 4
    /\ s[1] \in {"n", "N"}
    /\ s[2] \in {"o", "O"}
    /\ s[3] \in {"n", "N"}
    /\ s[4] \in {"e", "E"}

\* s matches ^[A-Za-z0-9-]+$.
WellFormed(s) == s # <<>> /\ \A k \in 1..Len(s) : s[k] \in IdChars

IsString(cell) == cell.kind = "str"

\* The row's result is one of the two validation errors.
ValidationFailed(k) ==
    /\ "error" \in DOMAIN results[k].github
    /\ results[k].github.error \in {MissingMsg, InvalidMsg}

GetsOfRow(k) == {g \in 1..Len(gets) : gets[g].row = k}

AfterLoop == pc \in {"tabs", "crashed", "done"}

\* C1 as claimed: every string whose trimmed form matches ^[A-Za-z0-9-]+$
\* passes validation, and the request URL is built from the trimmed string.
C1_AsClaimed ==
    \A k \in 1..Len(results) :
        LET id == Trimmed(df[k].s)
        IN  IsString(df[k]) /\ WellFormed(id) =>
                /\ ~ValidationFailed(k)
                /\ \E g \in GetsOfRow(k) : gets[g].url = Url(id)

\* C1 (amended): every string whose trimmed form matches ^[A-Za-z0-9-]+$ and
\* is not "none" in any letter case passes validation: its result is neither
\* "No GitHub ID provided" nor "Invalid GitHub ID format", and the request
\* URL is built from exactly the trimmed string.
C1_ValidIdAccepted ==
    \A k \in 1..Len(results) :
        LET id == Trimmed(df[k].s)
        IN  IsString(df[k]) /\ WellFormed(id) /\ ~IsNoneWord(id) =>
                /\ ~ValidationFailed(k)
                /\ \E g \in GetsOfRow(k) : gets[g].url = Url(id)

C1_Witness ==
    /\ pc = "done"
    /\ df = <<StrCell(<<" ", "n", "-", "7", " ">>)>>
    /\ gets = <<[row |-> 1, url |-> Url(<<"n", "-", "7">>)]>>
    /\ ~HasError(results[1].github)

\* The identifier is absent, empty, whitespace-only or "none".
NoIdentifier(cell) ==
    \/ cell.kind = "absent"
    \/ IsString(cell) /\ LET id == Trimmed(cell.s)
                          IN  id = <<>> \/ IsNoneWord(id)

\* C2: an absent, empty, whitespace-only or (case-insensitively) "none"
\* identifier gets the result "No GitHub ID provided" with count 0 and no
\* repositories, and no GET is ever issued for its row.
C2_MissingRejected ==
    /\ \A k \in 1..Len(results) :
          NoIdentifier(df[k]) =>
              results[k].github =
                  [error |-> MissingMsg, count |-> 0, repos |-> <<>>]
    /\ \A g \in 1..Len(gets) : ~NoIdentifier(df[gets[g].row])

C2_Witness ==
    /\ pc = "done"
    /\ df = <<StrCell(<<" ", "N", "o", "n", "e">>)>>
    /\ results[1].github.error = MissingMsg
    /\ gets = <<>>

\* The trimmed identifier is non-empty and has a character outside
\* [A-Za-z0-9-].
IllFormed(cell) ==
    /\ IsString(cell)
    /\ LET id == Trimmed(cell.s)
       IN  id # <<>> /\ \E k \in 1..Len(id) : id[k] \notin IdChars

\* C3: an identifier whose trimmed form is non-empty and has a character
\* outside [A-Za-z0-9-] gets the result "Invalid GitHub ID format" with
\* count 0 and no repositories, and no GET is ever issued for its row.
C3_InvalidRejected ==
    /\ \A k \in 1..Len(results) :
          IllFormed(df[k]) =>
              results[k].github =
                  [error |-> InvalidMsg, count |-> 0, repos |-> <<>>]
    /\ \A g \in 1..Len(gets) : ~IllFormed(df[gets[g].row])

C3_Witness ==
    /\ pc = "done"
    /\ df = <<StrCell(<<" ", "n", " ", NonAscii>>)>>
    /\ results[1].github.error = InvalidMsg
    /\ gets = <<>>

\* The identifier passes validation.
Validates(cell) ==
    /\ IsString(cell)
    /\ LET id == Trimmed(cell.s)
       IN  WellFormed(id) /\ ~IsNoneWord(id)

\* The answer to the GET of row k, for a row whose GET has been answered.
AnswerOfRow(k) == answers[CHOOSE g \in GetsOfRow(k) : TRUE]

\* results[k] is the outcome of row k: the processing error when process_row
\* raised, what scrape_github made of the answer when a GET was issued, and
\* the validation result otherwise.
IsOutcomeOfRow(k) ==
    IF TruthRaises(df[k])
    THEN results[k].github =
             [error |-> ProcessingMsg, count |-> 0, repos |-> <<>>]
    ELSE IF GetsOfRow(k) # {}
    THEN results[k].github = ParseResponse(Trimmed(df[k].s), AnswerOfRow(k))
    ELSE results[k].github = EarlyResult(df[k])

\* C4: the loop appends exactly one result per row, in row order, also when
\* process_row raises: that row gets the zero-count "Processing error" result
\* and the rows after it are still processed, so that after the loop results
\* has one result per input row.
C4_OneResultPerRow ==
    /\ Len(results) = i
    /\ i <= Len(df)
    /\ AfterLoop => Len(results) = Len(df)
    /\ \A k \in 1..Len(results) : IsOutcomeOfRow(k)

C4_Witness ==
    /\ AfterLoop
    /\ Len(df) = 3
    /\ TruthRaises(df[2])
    /\ results[2].github.error = ProcessingMsg
    /\ df[3] = StrCell(ValidId)
    /\ ~HasError(results[3].github)
    /\ results[3].github.count = 2

\* C5 as claimed: after the loop the errors list has exactly one entry for
\* each row whose result carries an error, of whatever kind.
C5_AsClaimed ==
    AfterLoop =>
        /\ \A k \in 1..Len(results) :
              Cardinality({e \in 1..Len(errors) : errors[e].row = k})
                  = IF "error" \in DOMAIN results[k].github THEN 1 ELSE 0
        /\ Len(results) = Len(df)

\* C7: the CSV has one line per input row, in input order, and its "GitHub
\* Repos" field is the count (as text) of a success, 0 included, and the
\* error message of an error; an empty GitHub ID gives "No GitHub ID
\* provided".
C7_CsvReposColumn ==
    pc = "done" =>
        /\ Len(csv) = Len(df)
        /\ \A k \in 1..Len(df) :
              /\ csv[k].github_id = (IF df[k].s = <<>> \/ df[k].s = <<"0">>
                                     THEN <<"None">> ELSE df[k].s)
              /\ IsOutcomeOfRow(k)
              /\ "error" \in DOMAIN results[k].github
                    => csv[k].github_repos = results[k].github.error
              /\ "error" \notin DOMAIN results[k].github
                    => csv[k].github_repos
                           = <<ToString(Len(results[k].github.repos))>>
              /\ df[k] = StrCell(<<>>) => csv[k].github_repos = MissingMsg

C7_Witness ==
    /\ pc = "done"
    /\ Len(df) = 3
    /\ df[1] = StrCell(<<>>)
    /\ csv[1].github_repos = <<"No GitHub ID provided">>
    /\ answers = <<Page(TRUE, <<>>), Page(TRUE, TwoRepos)>>
    /\ csv[2].github_repos = <<"0">>
    /\ csv[3].github_repos = <<"2">>

\* C8 as claimed: "Valid GitHub IDs" is the number of rows whose identifier
\* passes validation, whatever the fetch gave.
C8_AsClaimed ==
    AfterLoop =>
        summary.valid_github_ids
            = Cardinality({k \in 1..Len(df) : Validates(df[k])})

\* C9: one GET for each row whose identifier validates and none for any
\* other row, none repeated, in row order, each answered and its result
\* recorded before the next row's GET is issued.
C9_GetTrace ==
    /\ \A g, h \in 1..Len(gets) : g < h => gets[g].row < gets[h].row
    /\ \A g \in 1..Len(gets) :
          /\ gets[g].row \in 1..Len(df)
          /\ Validates(df[gets[g].row])
          /\ gets[g].url = Url(Trimmed(df[gets[g].row].s))
    /\ \A k \in 1..i : Validates(df[k]) => Cardinality(GetsOfRow(k)) = 1
    /\ pc = "get" =>
          /\ Len(answers) = Len(gets) - 1
          /\ gets[Len(gets)].row = i + 1
          /\ Len(results) = i
    /\ pc # "get" =>
          /\ Len(answers) = Len(gets)
          /\ \A g \in 1..Len(gets) : gets[g].row <= Len(results)
    /\ AfterLoop =>
          \A k \in 1..Len(df) :
              Cardinality(GetsOfRow(k)) = IF Validates(df[k]) THEN 1 ELSE 0

C9_Witness ==
    /\ pc = "get"
    /\ Len(df) = 3
    /\ ~Validates(df[2])
    /\ Len(gets) = 2
    /\ gets[1].row = 1
    /\ gets[2].row = 3
    /\ answers = <<Failure("conn_error", "ConnectTimeout")>>
    /\ Len(results) = 2

\* The result recorded for the g-th GET, once it has been answered.
ResultOfGet(g) == results[gets[g].row].github

IsSuccess(r) == DOMAIN r = {"repos", "count"} /\ r.count = Len(r.repos)

IsError(r, msg) == r = [error |-> msg, count |-> 0, repos |-> <<>>]

ClaimIsSource(item) == item.source

TextOr(field, fallback) ==
    IF field = <<>> THEN fallback ELSE Trimmed(field[1])

\* C10: the records of a page are one per source entry, in document order
\* and without deduplication; name, language and description are each the
\* trimmed text of their element or the fallback "Unknown", "Unknown" and
\* ""; link is "" exactly when name is "Unknown" and otherwise
\* "https://github.com/" + id + "/" + name.
C10_RepositoryRecords ==
    \A g \in 1..Len(answers) :
        answers[g].kind = "page" /\ answers[g].container =>
            LET src == SelectSeq(answers[g].items, ClaimIsSource)
                repos == ResultOfGet(g).repos
                id == Trimmed(df[gets[g].row].s)
            IN  /\ Len(repos) = Len(src)
                /\ \A j \in 1..Len(src) :
                      /\ repos[j].name = TextOr(src[j].name, Unknown)
                      /\ repos[j].language = TextOr(src[j].language, Unknown)
                      /\ repos[j].description
                            = TextOr(src[j].description, <<>>)
                      /\ (repos[j].link = <<>>) <=> (repos[j].name = Unknown)
                      /\ repos[j].name # Unknown =>
                            repos[j].link
                                = <<"https://github.com/">> \o id \o <<"/">>
                                      \o repos[j].name
                      /\ src[j].name = <<>> =>
                            repos[j].name = Unknown /\ repos[j].link = <<>>

C10_Witness ==
    /\ pc = "done"
    /\ Len(answers) = 1
    /\ answers[1].kind = "page"
    /\ Len(answers[1].items) = 2
    /\ answers[1].items[1].name = <<<<" ", "r", " ">>>>
    /\ answers[1].items[2].name = <<>>
    /\ answers[1].items[2].language # <<>>
    /\ Len(results[1].github.repos) = 2
    /\ results[1].github.repos[1].link
          = <<"https://github.com/", "n", "-", "7", "/", "r">>
    /\ results[1].github.repos[2]
          = [name |-> Unknown, link |-> <<>>, language |-> <<"p", "y">>,
             description |-> <<>>]

====
